---- MODULE Spec2Model ----
(***************************************************************************)
(* Model of raffle_winner_picker.py: pick_winner reads raffle_tickets.csv, *)
(* builds selection_bag and final_counts, draws one winner per prize and   *)
(* writes raffle_audit.csv and raffle_winners.csv.                         *)
(*                                                                         *)
(* A Python dict is a sequence of <<key, value>> pairs in insertion order. *)
(* A CSV row is a sequence of fields; field k of the source (row[k]) is    *)
(* element k+1 here.  The quantity column holds its text as a sequence of  *)
(* characters, so that int() is a parse and not the identity.              *)
(***************************************************************************)
EXTENDS Integers, Sequences, FiniteSets, TLC

MaxRows == 3

NumCols == 11
QuantityCol == 9
PrizeCol == 6
PersonCol == 1
IdCol == 0

Persons == {"A", "B"}
Prizes == {"X", "Y"}

DigitChars == <<"0", "1", "2", "3", "4", "5", "6", "7", "8", "9">>
QuantityFields == {<<"0">>, <<"1">>, <<"2">>, <<"-", "1">>, <<"x">>}

\* ---------------------------------------------------------------- input rows

HeaderRow ==
    <<"PaymentID", "Donor Name", "First Name", "Last Name", "Email", "Date",
      "Item Name", "Item Price", "Item Fundraising Type",
      <<"Q", "u", "a", "n", "t", "i", "t", "y">>, "Total Item Amount">>

DataRow(person, prize, qty) ==
    <<"p1", person, "f", "l", "e", "d", prize, "5", "Raffle", qty, "t">>

Truncate(row, n) == SubSeq(row, 1, n)

\* Every (person, prize) pair buying one ticket, every quantity text for one
\* pair, and the malformed rows: a blank line, a header cut after its first
\* field, a data row cut before the quantity column.
InputRows ==
    {DataRow(p, z, <<"1">>) : p \in Persons, z \in Prizes}
    \cup {DataRow("A", "X", q) : q \in QuantityFields}
    \cup {HeaderRow, Truncate(HeaderRow, 1),
          Truncate(DataRow("A", "X", <<"1">>), QuantityCol), <<>>}

RECURSIVE SeqsUpTo(_, _)
SeqsUpTo(S, n) ==
    IF n = 0 THEN {<<>>}
    ELSE LET shorter == SeqsUpTo(S, n - 1)
         IN  shorter \cup {Append(s, x) : s \in {t \in shorter : Len(t) = n - 1}, x \in S}

NoFile == [exists |-> FALSE, rows |-> <<>>]
File(rows) == [exists |-> TRUE, rows |-> rows]

InputFiles == {NoFile} \cup {File(rows) : rows \in SeqsUpTo(InputRows, MaxRows)}

\* ---------------------------------------------------------------- dict

Keys(d) == [i \in 1..Len(d) |-> d[i][1]]
Has(d, k) == \E i \in 1..Len(d) : d[i][1] = k
Get(d, k) == d[CHOOSE i \in 1..Len(d) : d[i][1] = k][2]
Put(d, k, v) ==
    IF Has(d, k)
    THEN [i \in 1..Len(d) |-> IF d[i][1] = k THEN <<k, v>> ELSE d[i]]
    ELSE Append(d, <<k, v>>)

\* ---------------------------------------------------------------- int(), str()

IsSpace(c) == c = " "

RECURSIVE LStrip(_)
LStrip(s) == IF s # <<>> /\ IsSpace(Head(s)) THEN LStrip(Tail(s)) ELSE s

RECURSIVE RStrip(_)
RStrip(s) ==
    IF s # <<>> /\ IsSpace(s[Len(s)]) THEN RStrip(SubSeq(s, 1, Len(s) - 1)) ELSE s

IsDigit(c) == \E i \in 1..Len(DigitChars) : DigitChars[i] = c
DigitValue(c) == (CHOOSE i \in 1..Len(DigitChars) : DigitChars[i] = c) - 1

Unsigned(s) == IF s # <<>> /\ Head(s) \in {"-", "+"} THEN Tail(s) ELSE s

RECURSIVE DigitsValue(_)
DigitsValue(s) ==
    IF s = <<>> THEN 0
    ELSE 10 * DigitsValue(SubSeq(s, 1, Len(s) - 1)) + DigitValue(s[Len(s)])

\* int(text) raises ValueError unless the stripped text is an optional sign
\* followed by at least one digit.
IntParses(text) ==
    LET body == Unsigned(RStrip(LStrip(text)))
    IN  body # <<>> /\ \A i \in 1..Len(body) : IsDigit(body[i])

IntValue(text) ==
    LET t == RStrip(LStrip(text))
        v == DigitsValue(Unsigned(t))
    IN  IF Head(t) = "-" THEN 0 - v ELSE v

RECURSIVE StrOfNat(_)
StrOfNat(n) ==
    IF n < 10 THEN <<DigitChars[n + 1]>>
    ELSE StrOfNat(n \div 10) \o <<DigitChars[(n % 10) + 1]>>

StrOfInt(n) == IF n < 0 THEN <<"-">> \o StrOfNat(0 - n) ELSE StrOfNat(n)

\* ---------------------------------------------------------------- state

VARIABLES
    input,          \* raffle_tickets.csv
    auditFile,      \* raffle_audit.csv
    winnersFile,    \* raffle_winners.csv
    pc,             \* where pick_winner is: start, ingest, draw, audit, winners, done
    err,            \* the uncaught exception that ended the run, or "none"
    ri,             \* rows the reader has handed to the loop body and that it finished
    selection_bag,
    final_counts,
    winners,
    di,             \* items of final_counts the draw loop has finished
    draws,          \* the values random.randint returned in this run, in order
    console,        \* the lines printed in this run
    rerun,          \* whether this is the second run of the script on the same input
    before,         \* the two output files as they were when this run started
    prevDraws,      \* draws of the previous run
    prevWinners     \* winners of the previous run

vars == <<input, auditFile, winnersFile, pc, err, ri, selection_bag, final_counts,
          winners, di, draws, console, rerun, before, prevDraws, prevWinners>>

files == <<input, auditFile, winnersFile>>
locals == <<selection_bag, final_counts, winners, di, draws, ri>>
history == <<rerun, before, prevDraws, prevWinners>>

AuditHeader == <<"Prize", "Person", "Ticket Count">>
WinnersHeader == <<"Prize", "Winner">>

\* Output files a run may find: none, or those an earlier raffle left behind.
PriorOutputs ==
    {<<NoFile, NoFile>>,
     <<File(<<AuditHeader, <<"Old", "Z", <<"4">>>>>>),
       File(<<WinnersHeader, <<"Old", "Z">>>>)>>}

Running == err = "none" /\ pc # "done"

\* ---------------------------------------------------------------- ingest

Field(row, k) == row[k + 1]
HasField(row, k) == k < Len(row)

\* AddTicket with the append of line 37 one level deeper, under the inner else.
AddTicketAppendMisindented(t, prize_name, name_of_person) ==
    IF ~Has(t.selection_bag, prize_name)
    THEN [selection_bag |-> Put(t.selection_bag, prize_name, <<name_of_person>>),
          final_counts |-> Put(t.final_counts, prize_name, <<<<name_of_person, 1>>>>)]
    ELSE LET persons == Get(t.final_counts, prize_name)
         IN  IF ~Has(persons, name_of_person)
             THEN [selection_bag |-> t.selection_bag,
                   final_counts |-> Put(t.final_counts, prize_name,
                                        Put(persons, name_of_person, 1))]
             ELSE [selection_bag |-> Put(t.selection_bag, prize_name,
                                         Append(Get(t.selection_bag, prize_name),
                                                name_of_person)),
                   final_counts |-> Put(t.final_counts, prize_name,
                                        Put(persons, name_of_person,
                                            Get(persons, name_of_person) + 1))]

\* AddTicket appending the prize's name where the person's goes.
AddTicketAppendsPrize(t, prize_name, name_of_person) ==
    IF ~Has(t.selection_bag, prize_name)
    THEN [selection_bag |-> Put(t.selection_bag, prize_name, <<name_of_person>>),
          final_counts |-> Put(t.final_counts, prize_name, <<<<name_of_person, 1>>>>)]
    ELSE LET persons == Get(t.final_counts, prize_name)
             counted == IF ~Has(persons, name_of_person)
                        THEN Put(persons, name_of_person, 1)
                        ELSE Put(persons, name_of_person, Get(persons, name_of_person) + 1)
         IN  [selection_bag |-> Put(t.selection_bag, prize_name,
                                    Append(Get(t.selection_bag, prize_name), prize_name)),
              final_counts |-> Put(t.final_counts, prize_name, counted)]

\* One iteration of the loop over range(int(row[9])).
AddTicket(t, prize_name, name_of_person) ==
    IF ~Has(t.selection_bag, prize_name)
    THEN [selection_bag |-> Put(t.selection_bag, prize_name, <<name_of_person>>),
          final_counts |-> Put(t.final_counts, prize_name, <<<<name_of_person, 1>>>>)]
    ELSE LET persons == Get(t.final_counts, prize_name)
             counted == IF ~Has(persons, name_of_person)
                        THEN Put(persons, name_of_person, 1)
                        ELSE Put(persons, name_of_person, Get(persons, name_of_person) + 1)
         IN  [selection_bag |-> Put(t.selection_bag, prize_name,
                                    Append(Get(t.selection_bag, prize_name), name_of_person)),
              final_counts |-> Put(t.final_counts, prize_name, counted)]

\* RangeLen with the inner loop forgotten: one ticket per row of quantity >= 1.
RangeLenOnePerRow(n) == IF n > 0 THEN 1 ELSE 0

\* range(n) is empty for n <= 0.
RangeLen(n) == IF n > 0 THEN n ELSE 0

\* AddTickets with the prize's entries made before the loop, tickets or not.
RECURSIVE AddTicketsEntryFirst(_, _, _)
AddTicketsEntryFirst(t, row, n) ==
    IF n = 0
    THEN IF Has(t.selection_bag, Field(row, PrizeCol)) THEN t
         ELSE [selection_bag |-> Put(t.selection_bag, Field(row, PrizeCol), <<>>),
               final_counts |-> Put(t.final_counts, Field(row, PrizeCol), <<>>)]
    ELSE LET u == AddTicketsEntryFirst(t, row, n - 1)
             pool == Get(u.selection_bag, Field(row, PrizeCol))
             persons == Get(u.final_counts, Field(row, PrizeCol))
             person == Field(row, PersonCol)
         IN  [selection_bag |-> Put(u.selection_bag, Field(row, PrizeCol),
                                    Append(pool, person)),
              final_counts |-> Put(u.final_counts, Field(row, PrizeCol),
                                   Put(persons, person,
                                       IF Has(persons, person)
                                       THEN Get(persons, person) + 1 ELSE 1))]

RECURSIVE AddTickets(_, _, _)
AddTickets(t, row, n) ==
    IF n = 0 THEN t
    ELSE AddTicket(AddTickets(t, row, n - 1), Field(row, PrizeCol), Field(row, PersonCol))

\* ProcessRow skipping a row that is too short instead of failing on it.
ProcessRowSkipsShort(t, row) ==
    IF ~HasField(row, IdCol) THEN [err |-> "none", t |-> t]
    ELSE IF Field(row, IdCol) = "PaymentID" THEN [err |-> "none", t |-> t]
    ELSE IF ~HasField(row, QuantityCol) THEN [err |-> "none", t |-> t]
    ELSE IF ~IntParses(Field(row, QuantityCol)) THEN [err |-> "ValueError", t |-> t]
    ELSE [err |-> "none",
          t |-> AddTickets(t, row, RangeLen(IntValue(Field(row, QuantityCol))))]

\* The body of the loop over the reader's rows, for one row.
ProcessRow(t, row) ==
    IF ~HasField(row, IdCol) THEN [err |-> "IndexError", t |-> t]
    ELSE IF Field(row, IdCol) = "PaymentID" THEN [err |-> "none", t |-> t]
    ELSE IF ~HasField(row, QuantityCol) THEN [err |-> "IndexError", t |-> t]
    ELSE IF ~IntParses(Field(row, QuantityCol)) THEN [err |-> "ValueError", t |-> t]
    ELSE [err |-> "none",
          t |-> AddTickets(t, row, RangeLen(IntValue(Field(row, QuantityCol))))]

Tables == [selection_bag |-> selection_bag, final_counts |-> final_counts]

\* ---------------------------------------------------------------- draw

\* DrawItem iterating reversed(final_counts.items()).
DrawItemReversed(counts, done) == counts[Len(counts) - done]

\* DrawItem iterating a set of the prizes, whose order changes from one
\* process to the next with the hash seed.
DrawItemOfSet(counts, done) ==
    IF rerun THEN counts[Len(counts) - done] ELSE counts[done + 1]

\* The item of final_counts the draw loop handles next.
DrawItem(counts, done) == counts[done + 1]

\* DrawPool reading the leaked loop variable prize_name's slot: the pool of
\* the first prize, whatever prize is being drawn.
DrawPoolOfFirstPrize(bag, prize) == bag[1][2]

\* selection_bag[prize]
DrawPool(bag, prize) == Get(bag, prize)

\* random.randint(1, len(pool)) - 1
WinnerIndex(r) == r - 1

\* pool[winner_index]: a negative index counts from the end, and an index
\* outside -len(pool)..len(pool)-1 raises IndexError.
InRange(pool, winner_index) ==
    0 - Len(pool) <= winner_index /\ winner_index < Len(pool)

PoolAt(pool, winner_index) ==
    IF winner_index >= 0 THEN pool[winner_index + 1]
    ELSE pool[Len(pool) + winner_index + 1]

AuditLines(prize, persons) ==
    <<<<"entrants", prize>>>>
    \o [i \in 1..Len(persons) |-> <<"count", persons[i][1], persons[i][2]>>]

\* ---------------------------------------------------------------- export

RECURSIVE AuditRows(_)
AuditRows(counts) ==
    IF counts = <<>> THEN <<>>
    ELSE LET prize == counts[1][1]
             persons == counts[1][2]
         IN  [i \in 1..Len(persons) |-> <<prize, persons[i][1], StrOfInt(persons[i][2])>>]
             \o AuditRows(Tail(counts))

WinnerRows(w) == [i \in 1..Len(w) |-> <<w[i][1], w[i][2]>>]

\* ---------------------------------------------------------------- actions

Init ==
    /\ input \in InputFiles
    /\ \E prior \in PriorOutputs :
          /\ auditFile = prior[1]
          /\ winnersFile = prior[2]
          /\ before = prior
    /\ pc = "start"
    /\ err = "none"
    /\ ri = 0
    /\ selection_bag = <<>>
    /\ final_counts = <<>>
    /\ winners = <<>>
    /\ di = 0
    /\ draws = <<>>
    /\ console = <<>>
    /\ rerun = FALSE
    /\ prevDraws = <<>>
    /\ prevWinners = <<>>

\* OpenInput opening the audit file for writing along with the input.
OpenInputAndAudit ==
    /\ Running /\ pc = "start"
    /\ IF input.exists
       THEN pc' = "ingest" /\ err' = err /\ auditFile' = File(<<AuditHeader>>)
       ELSE pc' = pc /\ err' = "FileNotFoundError" /\ auditFile' = auditFile
    /\ UNCHANGED <<input, winnersFile, locals, console, history>>

\* open('raffle_tickets.csv', 'r') and the three empty dicts.
OpenInput ==
    /\ Running /\ pc = "start"
    /\ IF input.exists
       THEN pc' = "ingest" /\ err' = err
       ELSE pc' = pc /\ err' = "FileNotFoundError"
    /\ UNCHANGED <<files, locals, console, history>>

\* One row of "for row in reader", with its whole inner loop.
NextRow ==
    /\ Running /\ pc = "ingest" /\ ri < Len(input.rows)
    /\ LET out == ProcessRow(Tables, input.rows[ri + 1])
       IN  /\ err' = out.err
           /\ selection_bag' = out.t.selection_bag
           /\ final_counts' = out.t.final_counts
           /\ ri' = IF out.err = "none" THEN ri + 1 ELSE ri
    /\ UNCHANGED <<files, pc, winners, di, draws, console, history>>

\* The reader is exhausted: the loop over final_counts.items() starts.
EndOfInput ==
    /\ Running /\ pc = "ingest" /\ ri = Len(input.rows)
    /\ pc' = "draw"
    /\ UNCHANGED <<files, err, locals, console, history>>

\* One iteration of the loop over final_counts.items().
DrawWinner ==
    /\ Running /\ pc = "draw" /\ di < Len(final_counts)
    /\ LET item == DrawItem(final_counts, di)
           prize == item[1]
           pool == DrawPool(selection_bag, prize)
           told == console \o AuditLines(prize, item[2]) \o <<<<"picking", prize, pool>>>>
       IN  IF Len(pool) = 0
           THEN \* random.randint(1, 0): empty range
                /\ err' = "ValueError"
                /\ console' = told
                /\ UNCHANGED <<winners, di, draws>>
           ELSE \E r \in 1..Len(pool) :
                  LET winner_index == WinnerIndex(r)
                  IN  /\ draws' = Append(draws, r)
                      /\ IF InRange(pool, winner_index)
                         THEN /\ winners' = Put(winners, prize, PoolAt(pool, winner_index))
                              /\ console' = Append(told, <<"winner", prize,
                                                          PoolAt(pool, winner_index)>>)
                              /\ di' = di + 1
                              /\ err' = err
                         ELSE /\ err' = "IndexError"
                              /\ console' = told
                              /\ UNCHANGED <<winners, di>>
    /\ UNCHANGED <<files, pc, ri, selection_bag, final_counts, history>>

\* The draw loop is over, the input file is closed: print(winners).
EndOfDraw ==
    /\ Running /\ pc = "draw" /\ di = Len(final_counts)
    /\ console' = Append(console, <<"winners", winners>>)
    /\ pc' = "audit"
    /\ UNCHANGED <<files, err, locals, history>>

export_full_audit_to_csv ==
    /\ Running /\ pc = "audit"
    /\ auditFile' = File(<<AuditHeader>> \o AuditRows(final_counts))
    /\ pc' = "winners"
    /\ UNCHANGED <<input, winnersFile, err, locals, console, history>>

\* open('raffle_audit.csv', 'w') fails: the path is not writable.
AuditNotWritable ==
    /\ Running /\ pc = "audit"
    /\ err' = "OSError"
    /\ UNCHANGED <<files, pc, locals, console, history>>

\* export_winners_to_file opening the file in append mode.
export_winners_appending ==
    /\ Running /\ pc = "winners"
    /\ winnersFile' = File(winnersFile.rows \o <<WinnersHeader>> \o WinnerRows(winners))
    /\ pc' = "done"
    /\ UNCHANGED <<input, auditFile, err, locals, console, history>>

export_winners_to_file ==
    /\ Running /\ pc = "winners"
    /\ winnersFile' = File(<<WinnersHeader>> \o WinnerRows(winners))
    /\ pc' = "done"
    /\ UNCHANGED <<input, auditFile, err, locals, console, history>>

\* open('raffle_winners.csv', 'w') fails: the path is not writable.
WinnersNotWritable ==
    /\ Running /\ pc = "winners"
    /\ err' = "OSError"
    /\ UNCHANGED <<files, pc, locals, console, history>>

\* The script is run again on the same ticket file: a new process, whose
\* dicts start empty, and the output files the last run left.
RunAgain ==
    /\ ~Running /\ ~rerun
    /\ rerun' = TRUE
    /\ before' = <<auditFile, winnersFile>>
    /\ prevDraws' = draws
    /\ prevWinners' = winners
    /\ pc' = "start"
    /\ err' = "none"
    /\ ri' = 0
    /\ selection_bag' = <<>>
    /\ final_counts' = <<>>
    /\ winners' = <<>>
    /\ di' = 0
    /\ draws' = <<>>
    /\ console' = <<>>
    /\ UNCHANGED files

pick_winner ==
    \/ OpenInput
    \/ NextRow
    \/ EndOfInput
    \/ DrawWinner
    \/ EndOfDraw
    \/ export_full_audit_to_csv
    \/ AuditNotWritable
    \/ export_winners_to_file
    \/ WinnersNotWritable

\* One run of the script.
Next == pick_winner

Spec == Init /\ [][Next]_vars

\* The script run, and then run a second time on the same ticket file.
NextTwoRuns == pick_winner \/ RunAgain

SpecTwoRuns == Init /\ [][NextTwoRuns]_vars

\* ---------------------------------------------------------------- properties

Range(s) == {s[i] : i \in 1..Len(s)}
Occurrences(s, x) == Cardinality({i \in 1..Len(s) : s[i] = x})
KeysAreDistinct(d) == \A i, j \in 1..Len(d) : d[i][1] = d[j][1] => i = j

RECURSIVE SumOfValues(_)
SumOfValues(d) == IF d = <<>> THEN 0 ELSE d[1][2] + SumOfValues(Tail(d))

CountOf(counts, prize, person) ==
    IF Has(counts, prize) /\ Has(Get(counts, prize), person)
    THEN Get(Get(counts, prize), person)
    ELSE 0

\* C1: every winner recorded for a prize occurs in that prize's selection_bag
\* list and has a ticket count of at least one for that prize.
C1_WinnerInPool ==
    \A i \in 1..Len(winners) :
        LET prize == winners[i][1]
            winner == winners[i][2]
        IN  /\ Has(selection_bag, prize)
            /\ winner \in Range(Get(selection_bag, prize))
            /\ CountOf(final_counts, prize, winner) >= 1

\* A draw among two prizes, the second with a single entrant who holds no
\* ticket for the first, has been made.
C1_Witness ==
    /\ Len(winners) = 2
    /\ Len(Get(selection_bag, winners[1][1])) = 2
    /\ winners[2][2] \notin Range(Get(selection_bag, winners[1][1]))

\* C2: in every state of the run (so after every processed row), the two
\* tables have the same prizes and, for every prize, the counts of
\* final_counts[prize] add up to the length of selection_bag[prize].
C2_TallySumIsPoolLength ==
    /\ Range(Keys(final_counts)) = Range(Keys(selection_bag))
    /\ KeysAreDistinct(final_counts) /\ KeysAreDistinct(selection_bag)
    /\ \A i \in 1..Len(final_counts) :
          SumOfValues(final_counts[i][2]) = Len(Get(selection_bag, final_counts[i][1]))

\* Three rows are processed and a pool holds three tickets of two persons.
C2_Witness ==
    /\ ri = MaxRows
    /\ \E i \in 1..Len(selection_bag) :
          /\ Len(selection_bag[i][2]) >= 3
          /\ Cardinality(Range(selection_bag[i][2])) = 2

\* C3: for every prize and every person, the person occurs in
\* selection_bag[prize] as often as final_counts[prize][person] says, is a key
\* of final_counts[prize] exactly when occurring, and that many of the draw
\* values 1..N select the person.
C3_CountIsOccurrences ==
    \A z \in Range(Keys(selection_bag)) \cup Range(Keys(final_counts)) \cup Prizes :
        LET pool == IF Has(selection_bag, z) THEN Get(selection_bag, z) ELSE <<>>
            persons == IF Has(final_counts, z) THEN Get(final_counts, z) ELSE <<>>
        IN  /\ KeysAreDistinct(persons)
            /\ Range(Keys(persons)) = Range(pool)
            /\ \A p \in Range(pool) \cup Range(Keys(persons)) \cup Persons :
                  /\ Occurrences(pool, p) = CountOf(final_counts, z, p)
                  /\ Cardinality({r \in 1..Len(pool) : PoolAt(pool, WinnerIndex(r)) = p})
                       = CountOf(final_counts, z, p)

\* Ingest is over and a pool holds a person twice and another person once.
C3_Witness ==
    /\ pc = "draw"
    /\ \E i \in 1..Len(final_counts) :
          /\ CountOf(final_counts, final_counts[i][1], "A") = 2
          /\ CountOf(final_counts, final_counts[i][1], "B") = 1

\* C8: every prize of final_counts has a pool of at least one entrant and
\* only counts >= 1, so that no draw fails on an empty range and every value
\* drawn gave an index inside its pool.
C8_PoolsNonEmpty ==
    /\ \A i \in 1..Len(final_counts) :
          /\ Has(selection_bag, final_counts[i][1])
          /\ Len(Get(selection_bag, final_counts[i][1])) >= 1
          /\ final_counts[i][2] # <<>>
          /\ \A j \in 1..Len(final_counts[i][2]) : final_counts[i][2][j][2] >= 1
    /\ pc = "draw" => err = "none"
    /\ Len(draws) <= Len(final_counts)
    /\ \A k \in 1..Len(draws) :
          WinnerIndex(draws[k]) \in 0..(Len(Get(selection_bag, final_counts[k][1])) - 1)

\* The rows of quantity 0 and -1 were processed, and a draw was made.
C8_Witness ==
    /\ Len(draws) >= 1
    /\ \E i, j \in 1..Len(input.rows) :
          /\ Len(input.rows[i]) = NumCols /\ Len(input.rows[j]) = NumCols
          /\ input.rows[i][QuantityCol + 1] = <<"0">>
          /\ input.rows[j][QuantityCol + 1] = <<"-", "1">>

\* ---------------------------------------------------------------- the input, as written

IsHeader(row) == HasField(row, IdCol) /\ Field(row, IdCol) = "PaymentID"

\* The rows of the file the loop does not skip as headers.
DataRowsOf(rows) == {i \in 1..Len(rows) : ~IsHeader(rows[i])}

HasQuantity(row) == HasField(row, QuantityCol) /\ IntParses(Field(row, QuantityCol))
QuantityOf(row) == IntValue(Field(row, QuantityCol))

PrizesEncountered(rows) ==
    {Field(rows[i], PrizeCol) : i \in {j \in DataRowsOf(rows) : HasField(rows[j], PrizeCol)}}

PrizesWithTickets(rows) ==
    {Field(rows[i], PrizeCol) :
        i \in {j \in DataRowsOf(rows) : HasQuantity(rows[j]) /\ QuantityOf(rows[j]) >= 1}}

RECURSIVE SumOfQuantities(_, _, _)
SumOfQuantities(rows, prize, person) ==
    IF rows = <<>> THEN 0
    ELSE LET row == rows[Len(rows)]
             rest == SumOfQuantities(SubSeq(rows, 1, Len(rows) - 1), prize, person)
         IN  IF ~IsHeader(row) /\ HasQuantity(row)
                /\ Field(row, PrizeCol) = prize /\ Field(row, PersonCol) = person
             THEN rest + QuantityOf(row)
             ELSE rest

OnePerPrize(dataRows, prizes) ==
    /\ Len(dataRows) = Cardinality(prizes)
    /\ {dataRows[i][1] : i \in 1..Len(dataRows)} = prizes

\* C4 as claimed: when pick_winner completes, winners has exactly one entry,
\* and the winners file exactly one data row, for every prize encountered in
\* the data rows of the input.
C4_AsClaimed ==
    pc = "done" =>
        /\ OnePerPrize(winners, PrizesEncountered(input.rows))
        /\ winnersFile.exists /\ winnersFile.rows # <<>>
        /\ OnePerPrize(Tail(winnersFile.rows), PrizesEncountered(input.rows))

\* C4 as amended: when pick_winner completes, winners has exactly one entry,
\* and the winners file exactly one data row after its header, for every
\* prize that some data row of the input gives a quantity of at least 1.
C4_OneWinnerPerTicketedPrize ==
    pc = "done" =>
        /\ OnePerPrize(winners, PrizesWithTickets(input.rows))
        /\ winnersFile.exists /\ winnersFile.rows # <<>>
        /\ Head(winnersFile.rows) = WinnersHeader
        /\ OnePerPrize(Tail(winnersFile.rows), PrizesWithTickets(input.rows))

\* A run over two ticketed prizes and a prize row of quantity 0 completed,
\* overwriting the winners file of an earlier raffle.
C4_Witness ==
    /\ pc = "done"
    /\ before[2].exists
    /\ Len(winners) = 2
    /\ \E i \in 1..Len(input.rows) :
          Len(input.rows[i]) = NumCols /\ input.rows[i][QuantityCol + 1] = <<"0">>

\* C5 as claimed: after ingest of an input whose data rows all have an
\* integer quantity, every final_counts[prize][person] there is is the sum of
\* the quantities of the data rows of that prize and person.
C5_AsClaimed ==
    (pc \notin {"start", "ingest"}
       /\ \A i \in DataRowsOf(input.rows) : HasQuantity(input.rows[i]))
    => \A i \in 1..Len(final_counts) : \A j \in 1..Len(final_counts[i][2]) :
          final_counts[i][2][j][2]
            = SumOfQuantities(input.rows, final_counts[i][1], final_counts[i][2][j][1])

\* C5 as amended: after ingest of an input whose data rows all have a
\* non-negative integer quantity, final_counts[prize][person] is the sum of
\* the quantities of the data rows of that prize and person, and the person
\* has no entry for the prize when that sum is 0.
C5_CountIsSumOfQuantities ==
    (pc \notin {"start", "ingest"}
       /\ \A i \in DataRowsOf(input.rows) :
             HasQuantity(input.rows[i]) /\ QuantityOf(input.rows[i]) >= 0)
    => \A z \in Prizes : \A p \in Persons :
          /\ CountOf(final_counts, z, p) = SumOfQuantities(input.rows, z, p)
          /\ (Has(final_counts, z) /\ Has(Get(final_counts, z), p))
               <=> SumOfQuantities(input.rows, z, p) > 0

\* Ingest is over, of rows of quantity 2, 1 and 0 for one prize and person.
C5_Witness ==
    /\ pc = "draw"
    /\ \A i \in DataRowsOf(input.rows) : QuantityOf(input.rows[i]) >= 0
    /\ \E i \in 1..Len(input.rows) : input.rows[i] = DataRow("A", "X", <<"0">>)
    /\ CountOf(final_counts, "X", "A") = 3

IsShort(row) == Len(row) <= QuantityCol

\* C6 as claimed: with a row of fewer than 10 columns in the input file, the
\* run never completes normally.
C6_AsClaimed ==
    (\E i \in 1..Len(input.rows) : IsShort(input.rows[i])) => pc # "done"

\* C6 as amended: a row of fewer than 10 columns whose first field is not
\* PaymentID (a row of no fields included) is never got past: the run does
\* not leave ingest, and when it ends at that row it ends with IndexError
\* (it ends earlier only with the uncaught failure of an earlier row).
C6_ShortDataRowIsFatal ==
    \A i \in 1..Len(input.rows) :
        (IsShort(input.rows[i]) /\ ~IsHeader(input.rows[i]))
        => /\ pc \in {"start", "ingest"}
           /\ ri < i
           /\ (ri = i - 1 /\ err # "none") => err = "IndexError"
           /\ (ri < i - 1 /\ err # "none") => err \in {"IndexError", "ValueError"}

\* The run ended with IndexError at a third row that is too short, after
\* two rows that gave tickets.
C6_Witness ==
    /\ pc = "ingest" /\ err = "IndexError" /\ ri = 2
    /\ Len(final_counts) = 2
    /\ Len(input.rows[3]) = QuantityCol

\* ---------------------------------------------------------------- order

RECURSIVE DistinctInOrder(_)
DistinctInOrder(s) ==
    IF s = <<>> THEN <<>>
    ELSE LET front == DistinctInOrder(SubSeq(s, 1, Len(s) - 1))
         IN  IF s[Len(s)] \in Range(front) THEN front ELSE Append(front, s[Len(s)])

PositionIn(s, x) == CHOOSE i \in 1..Len(s) : s[i] = x

IsPrefix(s, t) == Len(s) <= Len(t) /\ SubSeq(t, 1, Len(s)) = s

\* The <<prize, person>> of the data rows, in file order: of all those that
\* have a prize column, or of those that give at least one ticket.
RECURSIVE Purchases(_, _)
Purchases(rows, ticketedOnly) ==
    IF rows = <<>> THEN <<>>
    ELSE LET row == rows[Len(rows)]
             front == Purchases(SubSeq(rows, 1, Len(rows) - 1), ticketedOnly)
             counts == IF ticketedOnly
                       THEN HasQuantity(row) /\ QuantityOf(row) >= 1
                       ELSE HasField(row, PrizeCol)
         IN  IF ~IsHeader(row) /\ counts
             THEN Append(front, <<Field(row, PrizeCol), Field(row, PersonCol)>>)
             ELSE front

PrizesOf(pairs) == DistinctInOrder([i \in 1..Len(pairs) |-> pairs[i][1]])

FirstSeenOrder(rows) == PrizesOf(Purchases(rows, FALSE))
FirstTicketOrder(rows) == PrizesOf(Purchases(rows, TRUE))

\* The <<prize, person>> pairs in order of the prize's first ticket and,
\* within a prize, of the person's first ticket for it.
RECURSIVE PairsByPrize(_, _)
PairsByPrize(prizes, pairs) ==
    IF prizes = <<>> THEN <<>>
    ELSE LET mine(pair) == pair[1] = Head(prizes)
         IN  DistinctInOrder(SelectSeq(pairs, mine)) \o PairsByPrize(Tail(prizes), pairs)

FollowsOrder(s, order) ==
    \A i, j \in 1..Len(s) :
        (i < j /\ s[i] \in Range(order) /\ s[j] \in Range(order))
        => PositionIn(order, s[i]) < PositionIn(order, s[j])

DataPart(file) == IF file.rows = <<>> THEN <<>> ELSE Tail(file.rows)
PrizeColumn(dataRows) == [i \in 1..Len(dataRows) |-> dataRows[i][1]]

\* C9 as claimed: prizes are drawn, and listed by the audit and winners
\* exports, in the order in which they were first seen in the input rows.
C9_AsClaimed ==
    /\ FollowsOrder(Keys(winners), FirstSeenOrder(input.rows))
    /\ pc \in {"winners", "done"}
         => FollowsOrder(DistinctInOrder(PrizeColumn(DataPart(auditFile))),
                         FirstSeenOrder(input.rows))
    /\ pc = "done"
         => FollowsOrder(PrizeColumn(DataPart(winnersFile)), FirstSeenOrder(input.rows))

\* C9 as amended: prizes are drawn, and listed by the audit and winners
\* exports, in the order in which they received their first ticket (the
\* first data row of the prize with a quantity of at least 1); the audit
\* lists the persons of a prize in order of their first ticket for it.
C9_FirstTicketOrder ==
    LET order == FirstTicketOrder(input.rows)
    IN  /\ pc \notin {"start", "ingest"} => Keys(final_counts) = order
        /\ pc = "draw" /\ err = "none" => Keys(winners) = SubSeq(order, 1, di)
        /\ pc \in {"audit", "winners", "done"} => Keys(winners) = order
        /\ pc \in {"winners", "done"}
             => [i \in 1..Len(DataPart(auditFile)) |->
                    <<DataPart(auditFile)[i][1], DataPart(auditFile)[i][2]>>]
                = PairsByPrize(order, Purchases(input.rows, TRUE))
        /\ pc = "done" => PrizeColumn(DataPart(winnersFile)) = order

\* A run completed in which the prize of the first row got its first ticket
\* after the other prize did.
C9_Witness ==
    /\ pc = "done"
    /\ Len(input.rows) = MaxRows
    /\ FirstSeenOrder(input.rows) = <<"X", "Y">>
    /\ Keys(winners) = <<"Y", "X">>

\* ---------------------------------------------------------------- phases

WrittenAudit == File(<<AuditHeader>> \o AuditRows(final_counts))

\* C10: no winner is drawn before every input row is consumed, the audit
\* file is not written before every prize has its winner, the winners file
\* not before the audit file; a run that ended in ingest has drawn nothing
\* and left both output files as they were before the run.
C10_IngestBeforeDrawBeforeExport ==
    /\ (winners # <<>> \/ draws # <<>>)
         => pc \notin {"start", "ingest"} /\ ri = Len(input.rows)
    /\ auditFile # before[1]
         => /\ pc \in {"winners", "done"}
            /\ di = Len(final_counts) /\ Len(winners) = Len(final_counts)
    /\ winnersFile # before[2]
         => pc = "done" /\ auditFile = WrittenAudit
    /\ pc \in {"start", "ingest"}
         => winners = <<>> /\ auditFile = before[1] /\ winnersFile = before[2]
    /\ pc \in {"winners", "done"} => auditFile = WrittenAudit

\* The run ended with ValueError at the third row, after two rows that gave
\* tickets, with the output files of an earlier raffle on disk.
C10_Witness ==
    /\ pc = "ingest" /\ err = "ValueError" /\ ri = 2
    /\ Len(final_counts) = 2
    /\ auditFile.exists /\ winnersFile.exists

\* ---------------------------------------------------------------- determinism

AfterDraw == pc \in {"audit", "winners", "done"}

\* C7: each prize of final_counts takes one draw value, in the order of
\* final_counts, and its winner is the pool element at that value; so a
\* second run on the same input that receives the draw values of the first
\* records the same winners, in the same order, and writes the same winners
\* rows.
C7_SameDrawsSameWinners ==
    /\ Len(draws) = Len(winners)
    /\ AfterDraw => Len(draws) = Len(final_counts)
    /\ \A k \in 1..Len(winners) :
          /\ winners[k][1] = final_counts[k][1]
          /\ winners[k][2]
               = PoolAt(Get(selection_bag, final_counts[k][1]), WinnerIndex(draws[k]))
    /\ (rerun /\ IsPrefix(draws, prevDraws)) => IsPrefix(winners, prevWinners)
    /\ (rerun /\ AfterDraw /\ draws = prevDraws) => winners = prevWinners
    /\ (rerun /\ pc = "done" /\ draws = prevDraws)
         => winnersFile = File(<<WinnersHeader>> \o WinnerRows(prevWinners))

\* The second run completed with the draw values of the first, over two
\* prizes whose pools each hold two persons.
C7_Witness ==
    /\ rerun /\ pc = "done"
    /\ draws = prevDraws /\ draws = <<2, 1>>
    /\ Len(winners) = 2
    /\ winners[1][2] # winners[2][2]

====
